---- MODULE Spec2Model ----
(***************************************************************************)
(* Model of the WeLib downloader (src/download_books.py): main, the        *)
(* process_workflow pipeline, download_file_curl and clean_filename.       *)
(*                                                                         *)
(* Strings are sequences of one-character strings, so that the regular     *)
(* expression, the slice, strip and replace of clean_filename act on       *)
(* characters.  A URL is a record: `http' says whether it starts with      *)
(* "http", `marks' is the set of extension substrings it contains.         *)
(* The downloads directory is the function fs from the names of the files  *)
(* that exist to their sizes in bytes.                                     *)
(***************************************************************************)
EXTENDS Integers, Sequences, FiniteSets, TLC

\* ------------------------------------------------------------------ bounds
MaxTerms == 2      \* lines in search_terms.txt
MaxLen == 3        \* length of the short query strings of SpecName
MaxRows == 2       \* rows of the VPN Gate list

\* -------------------------------------------------------- program constants
MinSize == 1000    \* download_file_curl: if size < 1000
MaxStem == 50      \* clean_filename: [:50]
MaxPolls == 45     \* connect_vpn: for i in range(45)
MaxServers == 15   \* fetch_vpn_servers: servers[:15]
TestUrls == 4      \* len(TEST_URLS)
max_attempts == 3  \* solve_cloudflare_turnstile(page, max_attempts=3)
max_wait == 120    \* wait_and_solve_cloudflare(page, max_wait=120)

None == "None"

\* ------------------------------------------------------------- characters
WordChars == {"D", "u", "n", "e", "E", "m", "a", "b", "1", "_"}
SpaceChars == {" ", "\t"}

IsWord(c) == c \in WordChars
IsSpace(c) == c \in SpaceChars

\* the character class [^\w\s-] of clean_filename is removed: what stays
KeptChar(c) == IsWord(c) \/ IsSpace(c) \/ c = "-"

RECURSIVE LStrip(_)
LStrip(s) == IF s # <<>> /\ IsSpace(Head(s)) THEN LStrip(Tail(s)) ELSE s

RECURSIVE RStrip(_)
RStrip(s) ==
    IF s # <<>> /\ IsSpace(s[Len(s)]) THEN RStrip(SubSeq(s, 1, Len(s) - 1)) ELSE s

\* str.strip()
Strip(s) == LStrip(RStrip(s))

\* s[:n]
Slice(s, n) == SubSeq(s, 1, IF Len(s) < n THEN Len(s) ELSE n)

\* str.replace(' ', '_')
ReplaceSpaces(s) == [i \in 1..Len(s) |-> IF s[i] = " " THEN "_" ELSE s[i]]

\* re.sub(r'[^\w\s-]', '', name)
RemoveOther(s) == SelectSeq(s, KeptChar)

clean_filename(name) == ReplaceSpaces(Strip(Slice(RemoveOther(name), MaxStem)))

\* ------------------------------------------------------------------- URLs
PdfExt == <<".", "p", "d", "f">>
EpubExt == <<".", "e", "p", "u", "b">>
MobiExt == <<".", "m", "o", "b", "i">>
Exts == {PdfExt, EpubExt, MobiExt}

MkUrl(id, http, marks) == [id |-> id, q |-> <<>>, http |-> http, marks |-> marks]

UrlPdf == MkUrl("https://m1/book.pdf", TRUE, {PdfExt})
UrlEpub == MkUrl("https://m2/book.epub", TRUE, {EpubExt})
UrlMobi == MkUrl("https://m3/book.mobi", TRUE, {MobiExt})
UrlView == MkUrl("https://m4/view?id=7", TRUE, {})
UrlRel == MkUrl("/files/book.pdf", FALSE, {PdfExt})
FileUrls == {UrlPdf, UrlEpub, UrlMobi, UrlView, UrlRel}

\* the addresses the browser itself visits
search_url(q) == [MkUrl("https://welib.org/search?q=", TRUE, {}) EXCEPT !.q = q]
BookUrl == MkUrl("https://welib.org/book/1", TRUE, {})
ReadUrl == MkUrl("https://welib.org/read/1", TRUE, {})
NoUrl == MkUrl(None, FALSE, {})

\* real_url.startswith("http")
StartsWithHttp(u) == u.http

\* ext = ".pdf"; if ".epub" in real_url: ... elif ".mobi" in real_url: ...
ExtOf(u) ==
    IF EpubExt \in u.marks THEN EpubExt
    ELSE IF MobiExt \in u.marks THEN MobiExt
    ELSE PdfExt

\* f"{safe_title}{ext}"
DestName(q, u) == clean_filename(q) \o ExtOf(u)

\* ------------------------------------------------- the page after "Read"
SeqsUpTo(S, n) == UNION {[1..k -> S] : k \in 0..n}

\* what the extraction strategies can see of the viewer page (they read
\* element attributes and page.html, never page.url or search_url):
\*   fv     decoded url= values of the a/iframe/embed/object elements whose
\*          href or src holds fast_view?url, in the order of the tag loop
\*   other  the same for elements of any other tag (the brute force scan)
\*   book   the #bookIframe element: decoded url= of its src, inner .pdf link
\*   frame  decoded url= of the iframe find_iframe_recursive returns
\*   html   first match of https?://[^"\s<>]+\.pdf in page.html
Pages ==
    [fv : {<<>>, <<UrlView>>, <<UrlPdf>>, <<UrlView, UrlEpub>>,
           <<UrlPdf, UrlEpub>>, <<UrlEpub, UrlPdf>>},
     other : {<<>>, <<UrlMobi>>},
     book : {[present |-> FALSE, src |-> NoUrl, inner |-> NoUrl]}
            \cup [present : {TRUE}, src : {NoUrl, UrlPdf, UrlView},
                  inner : {NoUrl, UrlRel}],
     frame : {NoUrl, UrlView, UrlEpub},
     html : {NoUrl, UrlPdf}]

\* check_element_for_download: any(x in decoded.lower() for x in [.pdf, .epub, .mobi])
HasBookExt(u) == u.marks \cap Exts # {}

\* strategy 1: potential_urls, with the brute force scan when the tag loop
\* found nothing (the scan of * meets the tagged elements again)
Strategy1(page) ==
    LET tagged == SelectSeq(page.fv, HasBookExt)
    IN  IF tagged # <<>> THEN tagged
        ELSE SelectSeq(page.fv \o page.other, HasBookExt)

\* strategy 2: #bookIframe src, then its inner a[href$='.pdf']
Strategy2(page) ==
    IF ~page.book.present THEN NoUrl
    ELSE IF page.book.src # NoUrl /\ PdfExt \in page.book.src.marks
         THEN page.book.src
         ELSE page.book.inner

\* strategy 3: url= of the recursively found iframe, no extension test
Strategy3(page) == page.frame

\* strategy 4: regex over page.html
Strategy4(page) == page.html

\* potential_urls[-1] taken instead of potential_urls[0]
ExtractUrlLast(page) ==
    LET p == Strategy1(page)
        r1 == IF p # <<>> THEN p[Len(p)] ELSE NoUrl
        r2 == IF r1 = NoUrl THEN Strategy2(page) ELSE r1
        r3 == IF r2 = NoUrl THEN Strategy3(page) ELSE r2
    IN  IF r3 = NoUrl THEN Strategy4(page) ELSE r3

\* real_url after the four strategies, each run only while real_url is None
ExtractUrl(page) ==
    LET p == Strategy1(page)
        r1 == IF p # <<>> THEN p[1] ELSE NoUrl
        r2 == IF r1 = NoUrl THEN Strategy2(page) ELSE r1
        r3 == IF r2 = NoUrl THEN Strategy3(page) ELSE r2
    IN  IF r3 = NoUrl THEN Strategy4(page) ELSE r3

\* the logger.info("STRATEGY n: ...") lines: strategy 1 always, each later
\* one under its `if not real_url'
Consulted(page) ==
    LET p == Strategy1(page)
        r1 == IF p # <<>> THEN p[1] ELSE NoUrl
        r2 == IF r1 = NoUrl THEN Strategy2(page) ELSE r1
        r3 == IF r2 = NoUrl THEN Strategy3(page) ELSE r2
    IN  <<1>> \o (IF r1 = NoUrl THEN <<2>> ELSE <<>>)
             \o (IF r2 = NoUrl THEN <<3>> ELSE <<>>)
             \o (IF r3 = NoUrl THEN <<4>> ELSE <<>>)

NoPage ==
    [fv |-> <<>>, other |-> <<>>,
     book |-> [present |-> FALSE, src |-> NoUrl, inner |-> NoUrl],
     frame |-> NoUrl, html |-> NoUrl]
NoSeen == [page |-> NoPage, consulted |-> <<>>]

\* ------------------------------------------------------------ environment
Dune == <<"D", "u", "n", "e">>
DuneBang == <<"D", "u", "n", "e", "!">>

DuneHerbert == <<"D", "u", "n", "e", " ", "H", "e", "r", "b", "e", "r", "t">>

\* titles of the first search result
TitleDune == <<"D", "u", "n", "e", " ", "-", " ", "F", "r", "a", "n", "k", " ", "H", "e", "r", "b", "e", "r", "t", " ", "(", "1", "9", "6", "5", ")">>
TitleHouse == <<"H", "o", "u", "s", "e", " ", "o", "f", " ", "t", "h", "e", " ", "S", "p", "i", "r", "i", "t", "s">>
Titles == {TitleDune, TitleHouse}

\* the lines search_terms.txt can hold (split on \n)
Lines == {<<" ">>, Dune, DuneBang}

Sizes == {500, 1000, 50000}

\* content-disposition filename hint: the extension it names, <<>> if absent
Responses ==
    [status : {200, 206, 404},
     ctype : {"text/html", "application/pdf"},
     cd : {<<>>, EpubExt},
     size : Sizes]
NoResponse == [status |-> 0, ctype |-> None, cd |-> <<>>, size |-> 0]

\* outcomes of wait_and_solve_cloudflare(page): its return value, or an
\* exception out of page.html / page.get_screenshot
CfOutcomes == {"True", "False", "raise"}

\* ------------------------------------------------------------------ state
VARIABLES
    search_terms_file,  \* [exists, lines]: SEARCH_TERMS_FILE
    fs,                 \* DOWNLOADS_DIR: file name -> size in bytes
    mpc,                \* main: position
    search_terms,       \* main: the loaded terms
    idx,                \* main: terms consumed by the for loop
    success,            \* main: success
    fail,               \* main: fail
    outcomes,           \* main: the SUCCESS:/FAILED: log records, in order
    exit_status,        \* process exit status, -1 while running
    wpc,                \* process_workflow: position
    query,              \* process_workflow: query
    steps,              \* process_workflow: the steps completed in this call
    page_url,           \* page.url
    book_title,         \* process_workflow: title text of the element book, until it is clicked
    read,               \* process_workflow: read (TRUE when an element)
    seen,               \* the viewer page and the STRATEGY log lines (kept by W_ExtractSeen only)
    potential_urls,     \* process_workflow: potential_urls
    real_url,           \* process_workflow: real_url
    wresult,            \* process_workflow: returned value
    dpc,                \* download_file_curl: position
    dl_url,             \* download_file_curl: url
    dl_filename,        \* download_file_curl: filename
    dl_referer,         \* download_file_curl: referer
    attempts,           \* download_file_curl: requests.get calls made so far
    response,           \* download_file_curl: response
    opened,             \* download_file_curl: open(save_path, 'wb') was executed
    size,               \* download_file_curl: size, -1 before stat()
    dresult             \* download_file_curl: returned value

\* vpn_helper.py
VARIABLES
    vpc,          \* where vpn_helper's main stands
    servers,      \* the list fetch_vpn_servers returned
    sidx,         \* position of the for loop in servers, 0 before the loop
    tried,        \* positions for which openvpn was started, in order
    proc,         \* the openvpn daemon that runs, if any
    vlog,         \* /tmp/openvpn.log: who wrote it last and what it holds
    poll,         \* i of the polling loop in connect_vpn
    connected,    \* what the last connect_vpn returned
    answers,      \* what the URLs of the last test_connectivity answered
    vexit         \* exit status of vpn_helper, -1 while it runs

\* wait_and_solve_cloudflare and solve_cloudflare_turnstile
VARIABLES
    cpc,          \* where the call stands
    now,          \* time.time(), in seconds since the call began
    start,        \* the local start
    attempt,      \* the loop variable of the solver
    iters,        \* iterations of the solver begun
    clicks,       \* clicks performed in the current iteration
    last_check,   \* what the most recent is_cloudflare_page found
    sresult,      \* what solve_cloudflare_turnstile returned
    cresult       \* what wait_and_solve_cloudflare returned

mainVars == <<search_terms_file, mpc, search_terms, idx, success, fail, outcomes, exit_status>>
wfVars == <<wpc, query, steps, page_url, book_title, read, seen, potential_urls, real_url, wresult>>
dlVars == <<dpc, dl_url, dl_filename, dl_referer, attempts, response, opened, size, dresult>>
vpnVars == <<vpc, servers, sidx, tried, proc, vlog, poll, connected, answers, vexit>>
cfVars == <<cpc, now, start, attempt, iters, clicks, last_check, sresult, cresult>>
pipelineVars == <<mainVars, wfVars, dlVars, fs>>
helperVars == <<vpnVars, cfVars>>
vars == <<mainVars, wfVars, dlVars, fs, vpnVars, cfVars>>

NoProc == [srv |-> 0, state |-> "none"]
NoLog == [owner |-> 0, text |-> "none"]

\* vpn_helper.py is not running
VpnOff ==
    /\ vpc = "off" /\ servers = <<>> /\ sidx = 0 /\ tried = <<>>
    /\ proc = NoProc /\ vlog = NoLog /\ poll = 0
    /\ connected = FALSE /\ answers = <<>> /\ vexit = -1

\* no call of wait_and_solve_cloudflare is followed step by step
CfOff ==
    /\ cpc = "off" /\ now = 0 /\ start = 0 /\ attempt = 0 /\ iters = 0
    /\ clicks = 0 /\ last_check = "none"
    /\ sresult = "none" /\ cresult = "none"

EmptyDir == [f \in {} |-> 0]

\* [l.strip() for l in text.split('\n') if l.strip()]
LoadTerms(lines) ==
    LET stripped == [i \in 1..Len(lines) |-> Strip(lines[i])]
        NonBlank(l) == l # <<>>
    IN  SelectSeq(stripped, NonBlank)

WfIdle ==
    /\ wpc = "idle" /\ query = <<>> /\ steps = {} /\ page_url = NoUrl
    /\ book_title = <<>> /\ seen = NoSeen
    /\ read = FALSE /\ potential_urls = <<>> /\ real_url = NoUrl
    /\ wresult = FALSE

DlIdle ==
    /\ dpc = "idle" /\ dl_url = NoUrl /\ dl_filename = <<>>
    /\ dl_referer = NoUrl /\ attempts = 0
    /\ response = NoResponse /\ opened = FALSE
    /\ size = -1 /\ dresult = FALSE

WfReset ==
    /\ wpc' = "idle" /\ query' = <<>> /\ steps' = {} /\ page_url' = NoUrl
    /\ book_title' = <<>> /\ seen' = NoSeen
    /\ read' = FALSE /\ potential_urls' = <<>> /\ real_url' = NoUrl
    /\ wresult' = FALSE

DlReset ==
    /\ dpc' = "idle" /\ dl_url' = NoUrl /\ dl_filename' = <<>>
    /\ dl_referer' = NoUrl /\ attempts' = 0
    /\ response' = NoResponse /\ opened' = FALSE
    /\ size' = -1 /\ dresult' = FALSE

Init ==
    /\ search_terms_file \in
           {[exists |-> FALSE, lines |-> <<>>]}
           \cup [exists : {TRUE}, lines : SeqsUpTo(Lines, MaxTerms)]
    /\ fs = EmptyDir
    /\ mpc = "start"
    /\ search_terms = <<>>
    /\ idx = 0 /\ success = 0 /\ fail = 0
    /\ outcomes = <<>>
    /\ exit_status = -1
    /\ WfIdle
    /\ DlIdle
    /\ VpnOff
    /\ CfOff

\* ------------------------------------------------------ download_file_curl
\* only the server errors turned away
StatusOkBelow500(status) == status < 500

\* response.status_code not in [200, 206]
StatusOk(status) == status \in {200, 206}

\* the threshold with a digit lost
TooSmallLost(n) == n < MinSize \div 10

\* size < 1000
TooSmall(n) == n < MinSize

FsPut(f, n) == [g \in DOMAIN fs \cup {f} |-> IF g = f THEN n ELSE fs[g]]
FsDel(f) == [g \in DOMAIN fs \ {f} |-> fs[g]]

DlReturn(v) == dpc' = "returned" /\ dresult' = v

\* requests.get(...) and the status test; an exception goes to the except
\* clause, which returns False
D_Request ==
    /\ UNCHANGED helperVars
    /\ dpc = "request"
    /\ attempts' = attempts + 1
    /\ \/ /\ DlReturn(FALSE)
          /\ UNCHANGED response
       \/ \E r \in Responses :
            /\ response' = r
            /\ IF StatusOk(r.status)
               THEN dpc' = "open" /\ UNCHANGED dresult
               ELSE DlReturn(FALSE)
    /\ UNCHANGED <<dl_url, dl_filename, dl_referer, opened, size, fs, wfVars, mainVars>>

\* with open(save_path, 'wb') as f: creates or truncates the file
D_Open ==
    /\ UNCHANGED helperVars
    /\ dpc = "open"
    /\ \/ /\ DlReturn(FALSE)
          /\ UNCHANGED <<fs, opened>>
       \/ /\ fs' = FsPut(dl_filename, 0)
          /\ opened' = TRUE
          /\ dpc' = "write"
          /\ UNCHANGED dresult
    /\ UNCHANGED <<dl_url, dl_filename, dl_referer, attempts, response, size, wfVars, mainVars>>

\* f.write(response.content): all of it, or an OSError after part of it
D_Write ==
    /\ UNCHANGED helperVars
    /\ dpc = "write"
    /\ \/ /\ fs' = FsPut(dl_filename, response.size)
          /\ dpc' = "stat"
          /\ UNCHANGED dresult
       \/ \E n \in {0} \cup {k \in Sizes : k < response.size} :
            /\ fs' = FsPut(dl_filename, n)
            /\ DlReturn(FALSE)
    /\ UNCHANGED <<dl_url, dl_filename, dl_referer, attempts, response, opened, size, wfVars, mainVars>>

\* size = save_path.stat().st_size; if size < 1000: unlink, return False
D_Check ==
    /\ UNCHANGED helperVars
    /\ dpc = "stat"
    /\ size' = fs[dl_filename]
    /\ IF TooSmall(size')
       THEN fs' = FsDel(dl_filename) /\ DlReturn(FALSE)
       ELSE DlReturn(TRUE) /\ UNCHANGED fs
    /\ UNCHANGED <<dl_url, dl_filename, dl_referer, attempts, response, opened, wfVars, mainVars>>

\* -------------------------------------------------------- process_workflow
WfReturn(v) == wpc' = "returned" /\ wresult' = v

\* an exception inside the try block: control goes to the except clause
Raise == wpc' = "handler" /\ UNCHANGED wresult

\* url and referer in each other's place
DownloadArgsSwapped(q, u, cur) == [url |-> cur, filename |-> DestName(q, u), referer |-> u]

\* the arguments of download_file_curl(real_url, f"{safe_title}{ext}", page.url, ...)
DownloadArgs(q, u, cur) == [url |-> u, filename |-> DestName(q, u), referer |-> cur]

\* page.get(search_url)
W_GetSearch ==
    /\ UNCHANGED helperVars
    /\ wpc = "get_search"
    /\ \/ /\ wpc' = "cf1"
          /\ steps' = steps \cup {"search"}
          /\ page_url' = search_url(query)
          /\ UNCHANGED wresult
       \/ Raise /\ UNCHANGED <<steps, page_url>>
    /\ UNCHANGED <<query, book_title, seen, read, potential_urls, real_url, dlVars, mainVars, fs>>

\* if not wait_and_solve_cloudflare(page): return False
CfStep(at, next) ==
    /\ \E o \in CfOutcomes :
         \/ /\ o = "True"
            /\ wpc' = next
            /\ steps' = steps \cup {at}
            /\ UNCHANGED wresult
         \/ o = "False" /\ WfReturn(FALSE) /\ UNCHANGED steps
         \/ o = "raise" /\ Raise /\ UNCHANGED steps
    /\ UNCHANGED <<query, book_title, seen, page_url, read, potential_urls, real_url, dlVars, mainVars, fs>>

W_Cf1 ==
    /\ UNCHANGED helperVars
    /\ wpc = "cf1"
    /\ CfStep("cf1", "find_book")

\* book = page.ele(...), the href test and the fallback selector; without a
\* book: screenshot and return False
W_FindBook ==
    /\ UNCHANGED helperVars
    /\ wpc = "find_book"
    /\ \/ /\ wpc' = "click_book"
          /\ steps' = steps \cup {"book_found"}
          /\ book_title' \in Titles
          /\ UNCHANGED wresult
       \/ WfReturn(FALSE) /\ UNCHANGED <<steps, book_title>>
       \/ Raise /\ UNCHANGED <<steps, book_title>>
    /\ UNCHANGED <<query, seen, page_url, read, potential_urls, real_url, dlVars, mainVars, fs>>

\* if not safe_click(page, book): return False
W_ClickBook ==
    /\ UNCHANGED helperVars
    /\ wpc = "click_book"
    /\ book_title' = <<>>
    /\ \/ /\ wpc' = "cf2"
          /\ steps' = steps \cup {"book_clicked"}
          /\ page_url' = BookUrl
          /\ UNCHANGED wresult
       \/ WfReturn(FALSE) /\ UNCHANGED <<steps, page_url>>
    /\ UNCHANGED <<query, seen, read, potential_urls, real_url, dlVars, mainVars, fs>>

W_Cf2 ==
    /\ UNCHANGED helperVars
    /\ wpc = "cf2"
    /\ CfStep("cf2", "find_read")

\* read = page.ele(...) or ... ; the backup xpath search
W_FindRead ==
    /\ UNCHANGED helperVars
    /\ wpc = "find_read"
    /\ \/ \E found \in BOOLEAN :
            /\ read' = found
            /\ wpc' = "click_read"
            /\ UNCHANGED wresult
       \/ Raise /\ UNCHANGED read
    /\ UNCHANGED <<query, book_title, seen, steps, page_url, potential_urls, real_url, dlVars, mainVars, fs>>

\* if not safe_click(page, read): return False; safe_click catches the
\* exception of clicking a missing element and returns False
W_ClickRead ==
    /\ UNCHANGED helperVars
    /\ wpc = "click_read"
    /\ \/ /\ read
          /\ wpc' = "cf3"
          /\ steps' = steps \cup {"read_clicked"}
          /\ page_url' = ReadUrl
          /\ UNCHANGED wresult
       \/ WfReturn(FALSE) /\ UNCHANGED <<steps, page_url>>
    /\ UNCHANGED <<query, book_title, seen, read, potential_urls, real_url, dlVars, mainVars, fs>>

\* if is_cloudflare_page(page): if not wait_and_solve_cloudflare(page): return False
\* (no challenge and a solved challenge both go on)
W_Cf3 ==
    /\ UNCHANGED helperVars
    /\ wpc = "cf3"
    /\ CfStep("cf3", "extract")

\* the screenshot and the four strategies
ExtractStep(keep) ==
    \/ \E page \in Pages :
         /\ potential_urls' = Strategy1(page)
         /\ real_url' = ExtractUrl(page)
         /\ seen' = IF keep THEN [page |-> page, consulted |-> Consulted(page)] ELSE seen
         /\ wpc' = "final"
         /\ UNCHANGED wresult
    \/ Raise /\ UNCHANGED <<potential_urls, real_url, seen>>

W_Extract ==
    /\ UNCHANGED helperVars
    /\ wpc = "extract"
    /\ ExtractStep(FALSE)
    /\ UNCHANGED <<query, book_title, steps, page_url, read, dlVars, mainVars, fs>>

\* the same step, with what the strategies saw and logged kept in `seen'
W_ExtractSeen ==
    /\ UNCHANGED helperVars
    /\ wpc = "extract"
    /\ ExtractStep(TRUE)
    /\ UNCHANGED <<query, book_title, steps, page_url, read, dlVars, mainVars, fs>>

\* if not real_url: return False; if not real_url.startswith("http"): return
\* False; return download_file_curl(...): the call
W_Final ==
    /\ UNCHANGED helperVars
    /\ wpc = "final"
    /\ \/ /\ real_url = NoUrl \/ ~StartsWithHttp(real_url)
          /\ WfReturn(FALSE)
          /\ UNCHANGED dlVars
       \/ /\ real_url # NoUrl /\ StartsWithHttp(real_url)
          /\ \/ LET a == DownloadArgs(query, real_url, page_url)
                IN  /\ dl_url' = a.url
                    /\ dl_filename' = a.filename
                    /\ dl_referer' = a.referer
                    /\ dpc' = "request"
                    /\ wpc' = "download"
                    /\ UNCHANGED <<wresult, attempts, response, opened, size, dresult>>
             \/ Raise /\ UNCHANGED dlVars
    /\ UNCHANGED <<query, book_title, seen, steps, page_url, read, potential_urls, real_url, mainVars, fs>>

\* return download_file_curl(...): the return
W_Download ==
    /\ UNCHANGED helperVars
    /\ wpc = "download" /\ dpc = "returned"
    /\ WfReturn(dresult)
    /\ UNCHANGED <<query, book_title, seen, steps, page_url, read, potential_urls, real_url, dlVars, mainVars, fs>>

\* except Exception: page.get_screenshot(path="debug_error.png"); return False
\* an exception of the screenshot leaves process_workflow and main
W_Handler ==
    /\ UNCHANGED helperVars
    /\ wpc = "handler"
    /\ \/ WfReturn(FALSE) /\ UNCHANGED mainVars
       \/ /\ wpc' = "raised"
          /\ mpc' = "crashed"
          /\ exit_status' = 1
          /\ UNCHANGED <<wresult, search_terms_file, search_terms, idx, success, fail, outcomes>>
    /\ UNCHANGED <<query, book_title, seen, steps, page_url, read, potential_urls, real_url, dlVars, fs>>

\* --------------------------------------------------------------------- main
\* DOWNLOADS_DIR.mkdir; if not SEARCH_TERMS_FILE.exists(): sys.exit(1);
\* search_terms = [...]
M_Start ==
    /\ UNCHANGED helperVars
    /\ mpc = "start"
    /\ IF ~search_terms_file.exists
       THEN mpc' = "exit" /\ exit_status' = 1 /\ UNCHANGED search_terms
       ELSE /\ search_terms' = LoadTerms(search_terms_file.lines)
            /\ mpc' = "launch"
            /\ UNCHANGED exit_status
    /\ UNCHANGED <<search_terms_file, idx, success, fail, outcomes, wfVars, dlVars, fs>>

\* page = ChromiumPage(options), outside any try
M_Launch ==
    /\ UNCHANGED helperVars
    /\ mpc = "launch"
    /\ \/ mpc' = "warmup" /\ UNCHANGED exit_status
       \/ mpc' = "no_browser" /\ exit_status' = 1
    /\ UNCHANGED <<search_terms_file, search_terms, idx, success, fail, outcomes, wfVars, dlVars, fs>>

\* the warmup: every exception is caught and logged
M_Warmup ==
    /\ UNCHANGED helperVars
    /\ mpc = "warmup"
    /\ mpc' = "loop"
    /\ UNCHANGED <<search_terms_file, search_terms, idx, success, fail, outcomes, exit_status, wfVars, dlVars, fs>>

\* for term in search_terms: process_workflow(page, term): the call
M_NextTerm ==
    /\ UNCHANGED helperVars
    /\ mpc = "loop"
    /\ idx < Len(search_terms)
    /\ mpc' = "workflow"
    /\ query' = search_terms[idx + 1]
    /\ wpc' = "get_search"
    /\ UNCHANGED <<search_terms_file, search_terms, idx, success, fail, outcomes, exit_status>>
    /\ UNCHANGED <<steps, page_url, book_title, read, seen, potential_urls, real_url, wresult, dlVars, fs>>

\* if process_workflow(...): success += 1 else: fail += 1; the locals of the
\* finished calls are gone
M_Count ==
    /\ UNCHANGED helperVars
    /\ mpc = "workflow"
    /\ wpc = "returned"
    /\ outcomes' = Append(outcomes, [term |-> query, ok |-> wresult])
    /\ IF wresult
       THEN success' = success + 1 /\ UNCHANGED fail
       ELSE fail' = fail + 1 /\ UNCHANGED success
    /\ idx' = idx + 1
    /\ mpc' = "loop"
    /\ WfReset
    /\ DlReset
    /\ UNCHANGED <<search_terms_file, search_terms, exit_status, fs>>

\* logger.info(f"DONE: {success} success, {fail} failed")
M_Summary ==
    /\ UNCHANGED helperVars
    /\ mpc = "loop"
    /\ idx = Len(search_terms)
    /\ mpc' = "summary"
    /\ UNCHANGED <<search_terms_file, search_terms, idx, success, fail, outcomes, exit_status, wfVars, dlVars, fs>>

\* page.quit() and the end of main
M_Quit ==
    /\ UNCHANGED helperVars
    /\ mpc = "summary"
    /\ mpc' = "done"
    /\ exit_status' = 0
    /\ UNCHANGED <<search_terms_file, search_terms, idx, success, fail, outcomes, wfVars, dlVars, fs>>

Next ==
    \/ M_Start \/ M_Launch \/ M_Warmup \/ M_NextTerm \/ M_Count
    \/ M_Summary \/ M_Quit
    \/ W_GetSearch \/ W_Cf1 \/ W_FindBook \/ W_ClickBook \/ W_Cf2
    \/ W_FindRead \/ W_ClickRead \/ W_Cf3 \/ W_Extract \/ W_Final
    \/ W_Download \/ W_Handler
    \/ D_Request \/ D_Open \/ D_Write \/ D_Check

Spec == Init /\ [][Next]_vars

\* ----------------------------------------- the file name, on its own inputs
\* process_workflow at its final step, for query strings over NameChars:
\* the short ones, and long ones that reach the [:50] slice
NameChars == {"a", "_", "-", " ", "\t", ".", "/"}

LongA == [i \in 1..(MaxStem + 1) |-> "a"]
LongSpace == [i \in 1..(MaxStem + 1) |-> IF i = MaxStem THEN " " ELSE "a"]
LongDots == [i \in 1..(2 * MaxStem + 4) |-> IF i % 2 = 0 THEN "." ELSE "a"]

\* a loaded term is a stripped, non-empty line
NameQueries ==
    {q \in SeqsUpTo(NameChars, MaxLen) : q # <<>> /\ Strip(q) = q}
    \cup {LongA, LongSpace, LongDots}

InitName ==
    /\ query \in NameQueries
    /\ real_url \in FileUrls
    /\ search_terms_file = [exists |-> TRUE, lines |-> <<query>>]
    /\ search_terms = <<query>>
    /\ fs = EmptyDir
    /\ mpc = "workflow"
    /\ idx = 0 /\ success = 0 /\ fail = 0
    /\ outcomes = <<>>
    /\ exit_status = -1
    /\ wpc = "final"
    /\ steps = {"search", "cf1", "book_found", "book_clicked", "cf2", "read_clicked", "cf3"}
    /\ page_url = ReadUrl
    /\ book_title = <<>> /\ seen = NoSeen
    /\ read = TRUE
    /\ potential_urls = <<>>
    /\ wresult = FALSE
    /\ DlIdle
    /\ VpnOff
    /\ CfOff

NextName == W_Final

SpecName == InitName /\ [][NextName]_vars

\* ------------------------------- one query of two terms, and its results
InitMatch ==
    /\ search_terms_file \in [exists : {TRUE}, lines : {<<DuneHerbert>>, <<Dune>>}]
    /\ fs = EmptyDir
    /\ mpc = "start"
    /\ search_terms = <<>>
    /\ idx = 0 /\ success = 0 /\ fail = 0
    /\ outcomes = <<>>
    /\ exit_status = -1
    /\ WfIdle
    /\ DlIdle
    /\ VpnOff
    /\ CfOff

SpecMatch == InitMatch /\ [][Next]_vars

\* ------------------------------------ the extraction, with the page kept
InitExtract ==
    /\ search_terms_file = [exists |-> TRUE, lines |-> <<Dune>>]
    /\ search_terms = <<Dune>>
    /\ fs = EmptyDir
    /\ mpc = "workflow"
    /\ idx = 0 /\ success = 0 /\ fail = 0
    /\ outcomes = <<>>
    /\ exit_status = -1
    /\ wpc = "extract"
    /\ query = Dune
    /\ steps = {"search", "cf1", "book_found", "book_clicked", "cf2", "read_clicked", "cf3"}
    /\ page_url = ReadUrl
    /\ book_title = <<>> /\ seen = NoSeen
    /\ read = TRUE
    /\ potential_urls = <<>> /\ real_url = NoUrl
    /\ wresult = FALSE
    /\ DlIdle
    /\ VpnOff
    /\ CfOff

NextExtract == W_ExtractSeen \/ W_Final \/ W_Handler \/ D_Request

SpecExtract == InitExtract /\ [][NextExtract]_vars

\* -------------------------------------------------------------- vpn_helper
\* the pipeline is not running
PipelineOff ==
    /\ search_terms_file = [exists |-> FALSE, lines |-> <<>>]
    /\ fs = EmptyDir
    /\ mpc = "off"
    /\ search_terms = <<>>
    /\ idx = 0 /\ success = 0 /\ fail = 0
    /\ outcomes = <<>>
    /\ exit_status = -1
    /\ WfIdle
    /\ DlIdle

\* what one test URL can answer: status 200, another status, an exception
TestOutcomes == {"200", "other", "raise"}

\* the requests test_connectivity makes: it stops at the first status 200
TestRuns ==
    {a \in UNION {[1..n -> TestOutcomes] : n \in 1..TestUrls} :
        /\ \A i \in 1..(Len(a) - 1) : a[i] # "200"
        /\ Len(a) < TestUrls => a[Len(a)] = "200"}

\* any answer counted as access
TestConnectivityAny(a) == \E i \in DOMAIN a : a[i] # "raise"

\* test_connectivity: True when some URL answered with status 200
TestConnectivity(a) == \E i \in DOMAIN a : a[i] = "200"

\* the rows of the VPN Gate list; ok: the row has a config, a preferred
\* country, a speed above 5000000 and numbers that parse
Scores == {1, 2}
Rows == [ok : BOOLEAN, score : Scores]

RECURSIVE Suitable(_, _)
Suitable(rows, i) ==
    IF i > Len(rows) THEN <<>>
    ELSE (IF rows[i].ok THEN <<[id |-> i, score |-> rows[i].score]>> ELSE <<>>)
         \o Suitable(rows, i + 1)

\* x placed behind the servers whose score is not lower
InsertByScore(x, s) ==
    LET k == Cardinality({j \in 1..Len(s) : s[j].score >= x.score})
    IN  SubSeq(s, 1, k) \o <<x>> \o SubSeq(s, k + 1, Len(s))

\* servers.sort(key=score, reverse=True), a stable sort
RECURSIVE SortByScore(_)
SortByScore(s) ==
    IF s = <<>> THEN <<>>
    ELSE InsertByScore(s[Len(s)], SortByScore(SubSeq(s, 1, Len(s) - 1)))

Top(s, n) == SubSeq(s, 1, IF Len(s) < n THEN Len(s) ELSE n)

fetch_vpn_servers(rows) == Top(SortByScore(Suitable(rows, 1)), MaxServers)

\* the lines connect_vpn looks for in the log
LogFailures == {"AUTH_FAILED", "refused", "RESOLVE"}

\* run_cmd("sudo killall openvpn")
disconnect_vpn == proc' = NoProc

\* connect_vpn returns v to the for loop of main
ConnectReturn(v) ==
    /\ connected' = v
    /\ IF v THEN vpc' = "test" /\ UNCHANGED sidx
            ELSE vpc' = "loop" /\ sidx' = sidx + 1

\* [Step 1] test_connectivity without VPN, then test_dns
V_TestDirect ==
    /\ vpc = "direct"
    /\ \E a \in TestRuns :
         /\ answers' = a
         /\ IF TestConnectivity(a)
            THEN vpc' = "exited" /\ vexit' = 0
            ELSE vpc' = "fetch" /\ UNCHANGED vexit
    /\ UNCHANGED <<servers, sidx, tried, proc, vlog, poll, connected>>
    /\ UNCHANGED <<pipelineVars, cfVars>>

\* servers = fetch_vpn_servers(); an exception inside gives []
V_Fetch ==
    /\ vpc = "fetch"
    /\ \E list \in {<<>>} \cup {fetch_vpn_servers(rows) : rows \in SeqsUpTo(Rows, MaxRows)} :
         /\ servers' = list
         /\ IF list = <<>>
            THEN vpc' = "exited" /\ vexit' = 1 /\ UNCHANGED sidx
            ELSE vpc' = "loop" /\ sidx' = 1 /\ UNCHANGED vexit
    /\ answers' = <<>>
    /\ UNCHANGED <<tried, proc, vlog, poll, connected>>
    /\ UNCHANGED <<pipelineVars, cfVars>>

\* the head of the loop body: disconnect_vpn()
V_Disconnect ==
    /\ vpc = "loop" /\ sidx <= Len(servers)
    /\ disconnect_vpn
    /\ vpc' = "save"
    /\ answers' = <<>>
    /\ UNCHANGED <<servers, sidx, tried, vlog, poll, connected, vexit>>
    /\ UNCHANGED <<pipelineVars, cfVars>>

\* the loop is over: sys.exit(1)
V_AllTried ==
    /\ vpc = "loop" /\ sidx > Len(servers)
    /\ vpc' = "exited" /\ vexit' = 1
    /\ UNCHANGED <<servers, sidx, tried, proc, vlog, poll, connected, answers>>
    /\ UNCHANGED <<pipelineVars, cfVars>>

\* save_ovpn_config: the file name, or None and the next server
V_Save ==
    /\ vpc = "save"
    /\ \/ vpc' = "connect" /\ UNCHANGED sidx
       \/ vpc' = "loop" /\ sidx' = sidx + 1
    /\ UNCHANGED <<servers, tried, proc, vlog, poll, connected, answers, vexit>>
    /\ UNCHANGED <<pipelineVars, cfVars>>

\* connect_vpn up to the polling loop: killall, then Popen of the daemon;
\* an exception there makes connect_vpn return False
V_Popen ==
    /\ vpc = "connect"
    /\ \/ /\ proc' = [srv |-> servers[sidx].id, state |-> "starting"]
          /\ tried' = Append(tried, sidx)
          /\ poll' = 0
          /\ vpc' = "poll"
          /\ UNCHANGED <<sidx, connected>>
       \/ /\ proc' = NoProc
          /\ ConnectReturn(FALSE)
          /\ UNCHANGED <<tried, poll>>
    /\ UNCHANGED <<servers, vlog, answers, vexit>>
    /\ UNCHANGED <<pipelineVars, cfVars>>

\* one round of the polling loop: the log as it is now, then tun0
V_Poll ==
    /\ vpc = "poll"
    /\ IF poll >= MaxPolls
       THEN ConnectReturn(FALSE) /\ UNCHANGED poll
       ELSE IF vlog.text = "completed"
       THEN ConnectReturn(TRUE) /\ UNCHANGED poll
       ELSE IF vlog.text \in LogFailures
       THEN ConnectReturn(FALSE) /\ UNCHANGED poll
       ELSE IF proc.state \in {"tun", "up"}
       THEN ConnectReturn(TRUE) /\ UNCHANGED poll
       ELSE poll' = poll + 1 /\ UNCHANGED <<vpc, sidx, connected>>
    /\ UNCHANGED <<servers, tried, proc, vlog, answers, vexit>>
    /\ UNCHANGED <<pipelineVars, cfVars>>

\* test_connectivity through the VPN: exit 0, or disconnect and go on
V_TestVpn ==
    /\ vpc = "test"
    /\ \E a \in TestRuns :
         /\ answers' = a
         /\ IF TestConnectivity(a)
            THEN vpc' = "exited" /\ vexit' = 0 /\ UNCHANGED <<sidx, proc>>
            ELSE /\ disconnect_vpn
                 /\ vpc' = "loop" /\ sidx' = sidx + 1 /\ UNCHANGED vexit
    /\ UNCHANGED <<servers, tried, vlog, poll, connected>>
    /\ UNCHANGED <<pipelineVars, cfVars>>

\* the daemon, on its own: it opens (and empties) the log
O_OpenLog ==
    /\ proc.state = "starting"
    /\ proc' = [proc EXCEPT !.state = "logging"]
    /\ vlog' = [owner |-> proc.srv, text |-> ""]
    /\ UNCHANGED <<vpc, servers, sidx, tried, poll, connected, answers, vexit>>
    /\ UNCHANGED <<pipelineVars, cfVars>>

\* it ends on an error in the config, before the log is opened
O_Die ==
    /\ proc.state = "starting"
    /\ proc' = [proc EXCEPT !.state = "failed"]
    /\ UNCHANGED <<vpc, servers, sidx, tried, vlog, poll, connected, answers, vexit>>
    /\ UNCHANGED <<pipelineVars, cfVars>>

\* it brings tun0 up
O_TunUp ==
    /\ proc.state = "logging"
    /\ proc' = [proc EXCEPT !.state = "tun"]
    /\ UNCHANGED <<vpc, servers, sidx, tried, vlog, poll, connected, answers, vexit>>
    /\ UNCHANGED <<pipelineVars, cfVars>>

\* it writes "Initialization Sequence Completed"
O_Complete ==
    /\ proc.state = "tun"
    /\ proc' = [proc EXCEPT !.state = "up"]
    /\ vlog' = [owner |-> proc.srv, text |-> "completed"]
    /\ UNCHANGED <<vpc, servers, sidx, tried, poll, connected, answers, vexit>>
    /\ UNCHANGED <<pipelineVars, cfVars>>

\* it writes one of the failures and ends
O_Fail ==
    /\ proc.state = "logging"
    /\ \E t \in LogFailures : vlog' = [owner |-> proc.srv, text |-> t]
    /\ proc' = [proc EXCEPT !.state = "failed"]
    /\ UNCHANGED <<vpc, servers, sidx, tried, poll, connected, answers, vexit>>
    /\ UNCHANGED <<pipelineVars, cfVars>>

InitVpn ==
    /\ PipelineOff
    /\ CfOff
    /\ vpc = "direct" /\ servers = <<>> /\ sidx = 0 /\ tried = <<>>
    /\ proc = NoProc /\ vlog = NoLog /\ poll = 0
    /\ connected = FALSE /\ answers = <<>> /\ vexit = -1

NextVpn ==
    \/ V_TestDirect \/ V_Fetch \/ V_Disconnect \/ V_AllTried \/ V_Save
    \/ V_Popen \/ V_Poll \/ V_TestVpn
    \/ O_OpenLog \/ O_Die \/ O_TunUp \/ O_Complete \/ O_Fail

SpecVpn == InitVpn /\ [][NextVpn]_vars

\* ------------- wait_and_solve_cloudflare and solve_cloudflare_turnstile
\* seconds a browser call takes
Lat == {0, 1}

\* what is_cloudflare_page finds
Checks == {"clear", "challenge"}

\* a clock that stands still
AfterNone(t, d) == t

\* time.time() once d more seconds have passed (time.sleep(d), a browser call)
After(t, d) == t + d

\* the limit itself taken as a timeout
TimedOutAtLimit(t, s) == t - s >= max_wait

\* time.time() - start > max_wait
TimedOut(t, s) == t - s > max_wait

\* one round more
AttemptsLeftMore(a) == a <= max_attempts

\* for attempt in range(max_attempts)
AttemptsLeft(a) == a < max_attempts

RECURSIVE Pow2(_)
Pow2(n) == IF n = 0 THEN 1 ELSE 2 * Pow2(n - 1)

CfReturn(v) == cpc' = "returned" /\ cresult' = v

\* a browser call raises: the exception leaves both functions
CfRaise == cpc' = "returned" /\ cresult' = "raised"

\* if not is_cloudflare_page(page): return True
C_FirstCheck ==
    /\ cpc = "begin"
    /\ \E lat \in Lat : now' = After(now, lat)
    /\ \/ CfRaise /\ UNCHANGED last_check
       \/ \E c \in Checks :
            /\ last_check' = c
            /\ IF c = "clear" THEN CfReturn("True")
                              ELSE cpc' = "detected" /\ UNCHANGED cresult
    /\ UNCHANGED <<start, attempt, iters, clicks, sresult>>
    /\ UNCHANGED <<pipelineVars, vpnVars>>

\* the screenshot, start = time.time(), and the call of the solver
C_Detected ==
    /\ cpc = "detected"
    /\ \E lat \in Lat : now' = After(now, lat)
    /\ \/ CfRaise /\ UNCHANGED <<start, attempt>>
       \/ start' = now' /\ attempt' = 0 /\ cpc' = "s_loop" /\ UNCHANGED cresult
    /\ UNCHANGED <<iters, clicks, last_check, sresult>>
    /\ UNCHANGED <<pipelineVars, vpnVars>>

\* the head of the for loop and time.sleep(random.uniform(2, 4))
S_Loop ==
    /\ cpc = "s_loop"
    /\ IF AttemptsLeft(attempt)
       THEN /\ iters' = iters + 1
            /\ clicks' = 0
            /\ \E d \in 2..4 : now' = After(now, d)
            /\ cpc' = "s_iframe"
       ELSE /\ cpc' = "s_failed"
            /\ UNCHANGED <<iters, clicks, now>>
    /\ UNCHANGED <<start, attempt, last_check, sresult, cresult>>
    /\ UNCHANGED <<pipelineVars, vpnVars>>

\* find_turnstile_iframe; without an iframe time.sleep(3) and continue
S_FindIframe ==
    /\ cpc = "s_iframe"
    /\ \E lat \in Lat :
         \/ now' = After(now, lat) /\ cpc' = "s_checkbox" /\ UNCHANGED attempt
         \/ now' = After(now, lat + 3) /\ cpc' = "s_loop" /\ attempt' = attempt + 1
    /\ UNCHANGED <<start, iters, clicks, last_check, sresult, cresult>>
    /\ UNCHANGED <<pipelineVars, vpnVars>>

\* find_turnstile_checkbox; without coordinates continue
S_FindCheckbox ==
    /\ cpc = "s_checkbox"
    /\ \/ cpc' = "s_click" /\ UNCHANGED attempt
       \/ cpc' = "s_loop" /\ attempt' = attempt + 1
    /\ UNCHANGED <<now, start, iters, clicks, last_check, sresult, cresult>>
    /\ UNCHANGED <<pipelineVars, vpnVars>>

\* click_turnstile_checkbox: the click and time.sleep(random.uniform(3, 6)),
\* or an error caught and no click
S_Click ==
    /\ cpc = "s_click"
    /\ \/ /\ clicks' = clicks + 1
          /\ \E d \in 3..6 : now' = After(now, d)
          /\ cpc' = "s_verify"
       \/ /\ cpc' = "s_backoff"
          /\ UNCHANGED <<clicks, now>>
    /\ UNCHANGED <<start, attempt, iters, last_check, sresult, cresult>>
    /\ UNCHANGED <<pipelineVars, vpnVars>>

\* if not is_cloudflare_page(page): return True, which the caller returns too
S_Verify ==
    /\ cpc = "s_verify"
    /\ \E lat \in Lat : now' = After(now, lat)
    /\ \/ CfRaise /\ sresult' = "raised" /\ UNCHANGED last_check
       \/ \E c \in Checks :
            /\ last_check' = c
            /\ IF c = "clear"
               THEN sresult' = "True" /\ CfReturn("True")
               ELSE cpc' = "s_backoff" /\ UNCHANGED <<sresult, cresult>>
    /\ UNCHANGED <<start, attempt, iters, clicks>>
    /\ UNCHANGED <<pipelineVars, vpnVars>>

\* time.sleep(2 ** attempt) and the next round
S_Backoff ==
    /\ cpc = "s_backoff"
    /\ now' = After(now, Pow2(attempt))
    /\ attempt' = attempt + 1
    /\ cpc' = "s_loop"
    /\ UNCHANGED <<start, iters, clicks, last_check, sresult, cresult>>
    /\ UNCHANGED <<pipelineVars, vpnVars>>

\* after the loop: the screenshot and return False
S_Failed ==
    /\ cpc = "s_failed"
    /\ \E lat \in Lat : now' = After(now, lat)
    /\ \/ CfRaise /\ sresult' = "raised"
       \/ sresult' = "False" /\ cpc' = "w_check" /\ UNCHANGED cresult
    /\ UNCHANGED <<start, attempt, iters, clicks, last_check>>
    /\ UNCHANGED <<pipelineVars, vpnVars>>

\* while is_cloudflare_page(page): ... return True
C_WaitCheck ==
    /\ cpc = "w_check"
    /\ \E lat \in Lat : now' = After(now, lat)
    /\ \/ CfRaise /\ UNCHANGED last_check
       \/ \E c \in Checks :
            /\ last_check' = c
            /\ IF c = "clear" THEN CfReturn("True")
                              ELSE cpc' = "w_time" /\ UNCHANGED cresult
    /\ UNCHANGED <<start, attempt, iters, clicks, sresult>>
    /\ UNCHANGED <<pipelineVars, vpnVars>>

\* if time.time() - start > max_wait: return False; time.sleep(3)
C_WaitTime ==
    /\ cpc = "w_time"
    /\ IF TimedOut(now, start)
       THEN CfReturn("False") /\ UNCHANGED now
       ELSE now' = After(now, 3) /\ cpc' = "w_check" /\ UNCHANGED cresult
    /\ UNCHANGED <<start, attempt, iters, clicks, last_check, sresult>>
    /\ UNCHANGED <<pipelineVars, vpnVars>>

InitCf ==
    /\ PipelineOff
    /\ VpnOff
    /\ cpc = "begin" /\ now = 0 /\ start = 0 /\ attempt = 0 /\ iters = 0
    /\ clicks = 0 /\ last_check = "none"
    /\ sresult = "none" /\ cresult = "none"

NextCf ==
    \/ C_FirstCheck \/ C_Detected
    \/ S_Loop \/ S_FindIframe \/ S_FindCheckbox \/ S_Click \/ S_Verify
    \/ S_Backoff \/ S_Failed
    \/ C_WaitCheck \/ C_WaitTime

SpecCf == InitCf /\ [][NextCf]_vars

\* the call keeps running: the interpreter takes the next step
SpecCfLive == InitCf /\ [][NextCf]_vars /\ WF_vars(NextCf)

\* ------------------------------------------------------------------ claims
Returned == dpc = "returned"
Saved == dl_filename \in DOMAIN fs

\* s ends with the non-empty sequence e
EndsWith(s, e) ==
    /\ Len(s) >= Len(e)
    /\ SubSeq(s, Len(s) - Len(e) + 1, Len(s)) = e

\* C1: when download_file_curl returns True the file at the destination
\* holds at least MinSize bytes; when the file it wrote completely is found
\* by stat() to be smaller, the file is gone when the call returns, and the
\* call returns False.
C1_SizeThreshold ==
    Returned =>
        /\ dresult => (Saved /\ fs[dl_filename] >= MinSize)
        /\ (size # -1 /\ size < MinSize) => (~Saved /\ ~dresult)

\* scenario 4: application/pdf with 500 bytes was written, measured, rejected
C1_Witness ==
    /\ Returned /\ size = 500 /\ ~dresult
    /\ response.ctype = "application/pdf" /\ response.size = 500

\* C2: a response whose content type is an HTML document is rejected:
\* download_file_curl returns False for it, whatever its status and size.
C2_HtmlRejected == (Returned /\ response.ctype = "text/html") => ~dresult

\* C3: a query fails after a failed download only when every collected
\* candidate URL has been tried.
C3_AllCandidatesTried ==
    (wpc = "returned" /\ Returned /\ ~dresult) =>
        \A i \in DOMAIN potential_urls : potential_urls[i] = dl_url

\* C4: no exception leaves process_workflow.
C4_NoEscape == wpc # "raised"

\* C5: when download_file_curl returns False after it opened the
\* destination for writing, no file is left at the destination.
C5_NoFileOnFailure == (Returned /\ ~dresult /\ opened) => ~Saved

\* C6: once a query has succeeded, a later run of it opens the destination
\* for writing only when no file exists there.
C6_NoSilentOverwrite ==
    [][(/\ dpc = "open" /\ dpc' = "write"
        /\ \E i \in DOMAIN outcomes : outcomes[i].ok /\ outcomes[i].term = query)
       => ~Saved]_vars

\* C7: when main has ended with a browser, every loaded term has exactly one
\* outcome, in file order, success + fail is the number of terms and the
\* DONE summary was logged.
C7_EveryTermOnce ==
    mpc \in {"done", "crashed"} =>
        /\ mpc = "done"
        /\ [i \in DOMAIN outcomes |-> outcomes[i].term] = search_terms
        /\ success + fail = Len(search_terms)

\* C8: download_file_curl is invoked only after the search page was loaded,
\* a result and the Read link were clicked and the three Cloudflare checks
\* passed, on an extracted URL that starts with http and is none of the
\* addresses the browser visited.
C8_PipelineOrder ==
    dpc # "idle" =>
        /\ {"search", "cf1", "book_found", "book_clicked", "cf2",
            "read_clicked", "cf3"} \subseteq steps
        /\ page_url = ReadUrl
        /\ dl_url = real_url
        /\ StartsWithHttp(dl_url)
        /\ dl_url \notin {search_url(query), BookUrl, ReadUrl}

C8_Witness == dpc = "request" /\ dl_url = UrlPdf /\ dl_referer = ReadUrl

\* C9: a file saved for a response whose content-disposition names an
\* extension carries that extension.
C9_DispositionFirst ==
    (Returned /\ dresult /\ response.cd # <<>>) => EndsWith(dl_filename, response.cd)

\* C10: the destination name is a stem of at most MaxStem characters, each a
\* word character or a hyphen, followed by .pdf, .epub or .mobi.
C10_Sanitized ==
    dpc = "request" =>
        \E e \in Exts :
            /\ EndsWith(dl_filename, e)
            /\ Len(dl_filename) - Len(e) <= MaxStem
            /\ \A i \in 1..(Len(dl_filename) - Len(e)) :
                   IsWord(dl_filename[i]) \/ dl_filename[i] = "-"

\* C11: a run without any query (search_terms.txt missing, or without a
\* non-blank line) ends with a non-zero exit status.
C11_NoInputIsFatal ==
    (/\ exit_status # -1
     /\ \/ ~search_terms_file.exists
        \/ LoadTerms(search_terms_file.lines) = <<>>)
    => exit_status # 0

\* C12: download_file_curl reports a failed request only after three
\* attempts.
C12_Retried ==
    (Returned /\ response = NoResponse) => attempts = 3

\* C13: a response with a status other than 200 and 206 ends the call at
\* once: one request, False returned, the downloads directory as it was.
C13_BadStatusNoRetry ==
    [][(/\ dpc # "returned" /\ dpc' = "returned"
        /\ response' # NoResponse /\ response'.status \notin {200, 206})
       => (/\ dpc = "request" /\ attempts' = 1 /\ ~dresult'
           /\ ~opened' /\ fs' = fs)]_vars

\* a 404 for a destination that holds the file of an earlier download
C13_Witness ==
    /\ Returned /\ response.status = 404 /\ attempts = 1
    /\ Saved /\ fs[dl_filename] >= MinSize

\* str.lower() on the letters of the titles and queries
LowerChar(c) ==
    CASE c = "D" -> "d" [] c = "F" -> "f" [] c = "H" -> "h" [] c = "S" -> "s"
      [] OTHER -> c
Lower(s) == [i \in 1..Len(s) |-> LowerChar(s[i])]

\* t occurs in s
Contains(s, t) == \E i \in 1..(Len(s) - Len(t) + 1) : SubSeq(s, i, i + Len(t) - 1) = t

\* the words of s, split at spaces
RECURSIVE SplitWords(_, _)
SplitWords(s, cur) ==
    IF s = <<>> THEN (IF cur = <<>> THEN <<>> ELSE <<cur>>)
    ELSE IF IsSpace(Head(s))
         THEN (IF cur = <<>> THEN <<>> ELSE <<cur>>) \o SplitWords(Tail(s), <<>>)
         ELSE SplitWords(Tail(s), Append(cur, Head(s)))

\* at least n - 1 of the n significant terms (length > 2) of q occur in title
TitleMatches(q, title) ==
    LET words == SplitWords(Lower(q), <<>>)
        terms == {i \in DOMAIN words : Len(words[i]) > 2}
        hits == {i \in terms : Contains(Lower(title), words[i])}
    IN  Cardinality(hits) >= Cardinality(terms) - 1

\* C14: the search result is clicked only when its title passes the test
\* against the query.
C14_ResultValidated ==
    [][(wpc = "click_book" /\ wpc' = "cf2") => TitleMatches(query, book_title)]_vars

\* the first element of s that carries a book extension
FirstBookUrl(s) ==
    IF \E i \in DOMAIN s : HasBookExt(s[i])
    THEN s[CHOOSE i \in DOMAIN s :
               HasBookExt(s[i]) /\ \A j \in 1..(i - 1) : ~HasBookExt(s[j])]
    ELSE NoUrl

\* what strategy k produces on page pg
Produced(k, pg) ==
    CASE k = 1 -> (IF FirstBookUrl(pg.fv) # NoUrl THEN FirstBookUrl(pg.fv)
                   ELSE FirstBookUrl(pg.other))
      [] k = 2 -> Strategy2(pg)
      [] k = 3 -> Strategy3(pg)
      [] k = 4 -> Strategy4(pg)

\* C17: the strategies are consulted in the order 1, 2, 3, 4, each only when
\* all earlier ones produced nothing; real_url is what the last consulted one
\* produced (for strategy 1 the first match in tag order); without a URL
\* that starts with http the query fails and no request is made.
C17_StrategyOrder ==
    seen # NoSeen =>
        LET c == seen.consulted
            n == Len(c)
        IN  /\ n \in 1..4
            /\ c = [i \in 1..n |-> i]
            /\ \A j \in 1..(n - 1) : Produced(j, seen.page) = NoUrl
            /\ n < 4 => Produced(n, seen.page) # NoUrl
            /\ real_url = Produced(n, seen.page)
            /\ (real_url = NoUrl \/ ~StartsWithHttp(real_url)) =>
                   /\ dpc = "idle" /\ attempts = 0
                   /\ wpc \in {"final", "returned"}
                   /\ wpc = "returned" => ~wresult

\* the tag loop found two URLs; the first one is requested
C17_Witness ==
    /\ seen # NoSeen /\ seen.page.fv = <<UrlView, UrlEpub>> /\ seen.page.html = UrlPdf
    /\ seen.consulted = <<1>> /\ dl_url = UrlEpub /\ attempts = 1

\* C15: vpn_helper exits 0 only when the test_connectivity call just before
\* got a status 200 from some URL, directly or after connect_vpn returned
\* True; every other end (no servers, all servers tried) exits 1.
C15_ExitStatus ==
    /\ vexit \in {-1, 0, 1}
    /\ vpc = "exited" <=> vexit # -1
    /\ vexit = 0 =>
           /\ \E i \in DOMAIN answers : answers[i] = "200"
           /\ sidx = 0 \/ (sidx \in DOMAIN servers /\ connected)
    /\ vexit = 1 =>
           /\ \A i \in DOMAIN answers : answers[i] # "200"
           /\ servers = <<>> \/ sidx = Len(servers) + 1

\* exit 0 through the VPN of the second server
C15_Witness == vexit = 0 /\ sidx = 2 /\ connected /\ tried = <<1, 2>>

\* C16: the servers are tried in the fetched order (descending score), each
\* at most once; no VPN runs when an attempt starts or after an attempt that
\* connected without access; at exit 0 through a server, the VPN of that
\* server is connected.
C16_ServerLoop ==
    /\ \A i, j \in DOMAIN servers : i < j => servers[i].score >= servers[j].score
    /\ \A i, j \in DOMAIN tried : i < j => tried[i] < tried[j]
    /\ vpc \in {"save", "connect"} => proc = NoProc
    /\ (vpc = "loop" /\ connected) => proc = NoProc
    /\ (vexit = 0 /\ sidx > 0) =>
           /\ tried[Len(tried)] = sidx
           /\ proc.srv = servers[sidx].id
           /\ proc.state \in {"tun", "up"}

\* C18: wait_and_solve_cloudflare returns True only when the most recent
\* is_cloudflare_page check found no challenge, and False only when the
\* challenge is still there and more than max_wait seconds have passed
\* since the call began (now counts from the beginning of the call).
C18_ReturnValues ==
    /\ cresult = "True" => last_check = "clear"
    /\ cresult = "False" => (last_check = "challenge" /\ now > max_wait)

\* False after the solver used its rounds and the wait ran out
C18_Witness ==
    /\ cresult = "False" /\ sresult = "False" /\ last_check = "challenge"
    /\ now - start > max_wait /\ start = 0

\* C19: the call always ends: it returns True or False (or a browser call
\* raises), also when every check finds the challenge.
C19_Terminates == <>(cresult \in {"True", "False", "raised"})

\* the wait ran out although a click was made in every round
C19_Witness ==
    /\ cresult = "False" /\ iters = max_attempts /\ clicks = 1
    /\ attempt = max_attempts /\ start = 1

C21_DownloadOnce ==
    /\ attempts <= 1
    /\ dpc = "request" => attempts = 0
    /\ (wpc = "returned" /\ dpc # "idle") => (dpc = "returned" /\ wresult = dresult)
    /\ (wpc \in {"returned", "raised"} /\ dpc = "idle") => (wpc = "returned" /\ ~wresult)

\* C22: when a download attempt has returned False, the file of every term
\* that succeeded earlier is still at its destination, with the MinSize
\* bytes or more that a success leaves there.
C22_SavedFileKept ==
    (Returned /\ ~dresult) =>
        \A i \in DOMAIN outcomes :
            outcomes[i].ok =>
                \E e \in Exts :
                    LET f == clean_filename(outcomes[i].term) \o e
                    IN  f \in DOMAIN fs /\ fs[f] >= MinSize

\* C23: connect_vpn returns True only when the daemon it started has brought
\* up tun0 or completed its initialization, and it returns False before the
\* last poll only on a line that this daemon wrote to the log.
C23_OwnLogOnly ==
    [][(vpc = "poll" /\ vpc' # "poll") =>
           IF connected'
           THEN proc.state \in {"tun", "up"}
           ELSE poll >= MaxPolls \/ vlog.owner = proc.srv]_vars

====
